---- MODULE Spec2Model ----
(***************************************************************************)
(* Business Law AI Tutor backend: the Firestore document tree of one user  *)
(* (users/{uid}/chats/{chatId} with its messages and bookmarks             *)
(* subcollections) and the Flask handlers that read and write it, one      *)
(* action per handler, each handler run to completion (a request is        *)
(* handled sequentially). Spec is the chat and bookmark handlers;          *)
(* SpecUpload is the upload handlers over users/{uid}/uploads and the      *)
(* files of UPLOADS_DIR. SpecUploadFault adds writes to UPLOADS_DIR that   *)
(* fail, SpecFault adds sub-deletions of delete_chat that raise,           *)
(* SpecPrompt is POST /chat with the prompt it assembles from the          *)
(* session, SpecConc runs POST /chat and DELETE /chats/{id} one store     *)
(* call at a time, interleaved, SpecCascade runs delete_chat one document  *)
(* write at a time, and SpecLog is GET /history and POST /history/clear    *)
(* over the in-memory list chat_history, for two users.                    *)
(*                                                                         *)
(* Firestore semantics the handlers rely on:                               *)
(*   - add() gives the new document a fresh id, never used before;         *)
(*   - a subcollection can hold documents although its parent document     *)
(*     does not exist: add() under chats/{c}/messages never looks at       *)
(*     chats/{c};                                                          *)
(*   - update() of a document that does not exist raises NotFound, which   *)
(*     the store functions catch and turn into False;                      *)
(*   - delete() of a document leaves its subcollections alone;             *)
(*   - a collection stream lists only documents that exist.                *)
(***************************************************************************)
EXTENDS Integers, Sequences, FiniteSets, TLC

\* ------------------------------------------------------------- bounds
\* The requests of one run. A request creates at most one chat, two
\* messages and one bookmark, which bounds the ids as well.
MaxRequests == 3

\* Id 0 is an id the store never handed out (a stale or made-up id of a
\* request); the ids handed out are 1, 2, ...
ChatIds == 0..MaxRequests

\* ------------------------------------------------------------- values
\* A message text is its list of whitespace-separated words; <<>> is a text
\* that is empty after strip().
Texts == { <<"what">>, <<"explain", "offer", "and", "acceptance", "now">> }
NoText == << >>
Reply == <<"reply">>

\* The users of the service (the user_uid of a request).
Users == {"u1", "u2"}

\* The user whose chats, messages and bookmarks the store of the model holds.
Owner == "u1"

DefaultChatName == <<"New", "Chat">>
ManualName == <<"My", "Notes">>

Title(w) ==
    CASE w = "what" -> "What"
      [] w = "explain" -> "Explain"
      [] w = "offer" -> "Offer"
      [] w = "and" -> "And"
      [] w = "acceptance" -> "Acceptance"
      [] w = "now" -> "Now"
      [] OTHER -> w

Min(a, b) == IF a < b THEN a ELSE b

\* " ".join(user_message.strip().split()[:4]).title()
AutoChatName(text) ==
    [i \in 1..Min(4, Len(text)) |-> Title(text[i])]

VARIABLES
    db,         \* the Firestore client is there (firebase_config.db, FIREBASE_DB)
    chats,      \* chat documents: chat id -> chatName
    messages,   \* chats/{c}/messages in timestamp order: chat id -> sequence
    bookmarks,  \* chats/{c}/bookmarks: chat id -> set of bookmark documents
    nextChat,   \* next fresh chat id
    nextMsg,    \* next fresh message id (also the server timestamp order)
    nextBm,     \* next fresh bookmark id
    last,       \* the last request and its response
    renames,    \* per chat: how often POST /chat answered chatRenamed (0, 1, 2 = more)
    turns,      \* per chat: the POST /chat calls answered 200
    solo,       \* per chat: opened by POST /chat without chatId, and only POST /chat since
    requests,   \* the requests handled so far
    inflight,   \* the requests being handled step by step, by worker
    uploads,    \* users/{uid}/uploads: user -> set of upload documents
    disk,       \* UPLOADS_DIR: set of files [name |-> <<upload id, extension>>, content]
    session,    \* session['chapter_context'] of each user's client: set of [key, text]
    nextUpload, \* next fresh upload id
    sent,       \* per upload id answered by POST /upload: who sent which bytes
    chat_history \* the list chat_history of chat_routes.py, one for the process

chatVars == <<chats, messages, bookmarks, nextChat, nextMsg, nextBm,
              renames, turns, solo>>

uploadVars == <<uploads, disk, session, nextUpload, sent>>

vars == <<db, chats, messages, bookmarks, nextChat, nextMsg, nextBm, last,
          renames, turns, solo, requests, inflight, uploads, disk, session,
          nextUpload, sent, chat_history>>

\* The three collections as one value, so that a store function is an
\* operator from store to store.
Store == [chats |-> chats, messages |-> messages, bookmarks |-> bookmarks]

SetStore(s) ==
    /\ chats' = s.chats
    /\ messages' = s.messages
    /\ bookmarks' = s.bookmarks

\* full_user_prompt as the three strings it is concatenated from; a part
\* that is the empty string adds nothing to the prompt.
Prompt(user_message, file_context, global_context) ==
    [user_message |-> user_message, file_context |-> file_context,
     global_context |-> global_context]

NoPrompt == Prompt(<< >>, << >>, {})

\* A worker that handles no POST /chat, and no DELETE /chats/{id} under
\* way. sweptAt and racing are observations of the delete: the next message
\* id when it swept the messages, and the workers that were handling a
\* POST /chat on the chat when it deleted the chat document.
Workers == {"w1", "w2"}

NoTurn ==
    [pc |-> "idle", chat |-> -1, text |-> << >>, created |-> FALSE,
     user_message_id |-> -1, tutor_message_id |-> -1]

NoDelete ==
    [pc |-> "idle", chat |-> -1, sweptAt |-> 0, racing |-> {},
     phase |-> 0, todo |-> {}, deleted |-> {}, linked |-> {}]

NoLast ==
    [op |-> "none", code |-> 0, chat |-> -1, msg |-> -1, bm |-> -1,
     renamed |-> FALSE, nmsgs |-> 0, nbms |-> 0, followed |-> FALSE,
     user |-> "", upload |-> -1, name |-> << >>, content |-> "",
     invalid |-> FALSE, message |-> << >>, attached |-> << >>,
     asked |-> FALSE, prompt |-> NoPrompt, fault |-> "none",
     faultId |-> -1, textless |-> FALSE, aiFailed |-> FALSE,
     textlessImage |-> FALSE, history |-> << >>]

Init ==
    /\ db \in BOOLEAN
    /\ chats = [c \in {} |-> DefaultChatName]
    /\ messages = [c \in ChatIds |-> << >>]
    /\ bookmarks = [c \in ChatIds |-> {}]
    /\ nextChat = 1
    /\ nextMsg = 1
    /\ nextBm = 1
    /\ last = NoLast
    /\ renames = [c \in ChatIds |-> 0]
    /\ turns = [c \in ChatIds |-> 0]
    /\ solo = [c \in ChatIds |-> FALSE]
    /\ requests = 0
    /\ inflight = [turn |-> [w \in Workers |-> NoTurn], delete |-> NoDelete]
    /\ uploads = [u \in Users |-> {}]
    /\ disk = {}
    /\ session = [u \in Users |-> {}]
    /\ nextUpload = 1
    /\ sent = [i \in {} |-> [user |-> "", content |-> "", name |-> << >>]]
    /\ chat_history = << >>

\* ------------------------------------------------------ store functions
\* Each store function of firebase_config.py is an operator from the store
\* (and its arguments) to its return value and the store it leaves. Every
\* one of them answers its failure value at once when db is None.

None == -1

MsgIdsOf(s, c) == { s.messages[c][i].id : i \in 1..Len(s.messages[c]) }

\* get_user_chats: the chat documents that exist. The code orders them by
\* lastUpdated; ids are unique over all chats, so no search below depends
\* on the order and the model leaves lastUpdated out.
get_user_chats(s) == IF db THEN DOMAIN s.chats ELSE {}

get_chat_history_by_chat(s, c) == IF db THEN s.messages[c] ELSE << >>

get_chat_bookmarks(s, c) == IF db THEN s.bookmarks[c] ELSE {}

\* get_bookmarks: the bookmarks of every chat that exists.
get_bookmarks(s) ==
    IF db THEN UNION { get_chat_bookmarks(s, c) : c \in get_user_chats(s) }
    ELSE {}

\* A create that does not look whether there is a client.
create_chat_NoDbCheck(s, id, name) ==
    [id |-> id,
     s |-> [s EXCEPT !.chats =
               [x \in DOMAIN s.chats \cup {id} |->
                   IF x = id THEN name ELSE s.chats[x]]]]

create_chat(s, id, name) ==
    IF ~db THEN [id |-> None, s |-> s]
    ELSE [id |-> id,
          s |-> [s EXCEPT !.chats =
                    [x \in DOMAIN s.chats \cup {id} |->
                        IF x = id THEN name ELSE s.chats[x]]]]

\* A save that writes one fixed document of the subcollection instead of
\* adding a new one.
save_chat_message_Overwrite(s, c, id, sender, text) ==
    IF ~db \/ c = None THEN [id |-> None, s |-> s]
    ELSE [id |-> id,
          s |-> [s EXCEPT !.messages[c] =
                    << [id |-> id, sender |-> sender,
                        bookmarked |-> FALSE, message |-> text] >>]]

\* save_chat_message: add() under chats/{c}/messages; the chat document is
\* never looked at.
save_chat_message(s, c, id, sender, text) ==
    IF ~db \/ c = None THEN [id |-> None, s |-> s]
    ELSE [id |-> id,
          s |-> [s EXCEPT !.messages[c] =
                    Append(@, [id |-> id, sender |-> sender,
                               bookmarked |-> FALSE, message |-> text])]]

SetFlag(seq, mid, b) ==
    [i \in 1..Len(seq) |->
        IF seq[i].id = mid THEN [seq[i] EXCEPT !.bookmarked = b] ELSE seq[i]]

\* update_message_bookmark: looks for the message in the chats that
\* get_user_chats lists and updates the first one found.
update_message_bookmark(s, mid, b) ==
    LET holders == { c \in get_user_chats(s) : mid \in MsgIdsOf(s, c) }
    IN  IF ~db \/ holders = {} THEN [ok |-> FALSE, s |-> s]
        ELSE LET c == CHOOSE x \in holders : TRUE
             IN  [ok |-> TRUE,
                  s |-> [s EXCEPT !.messages[c] = SetFlag(@, mid, b)]]

\* A save that does not look whether the chat document exists.
save_bookmark_NoChatCheck(s, id, linked, chatId) ==
    IF ~db \/ chatId = None THEN [id |-> None, s |-> s]
    ELSE [id |-> id,
          s |-> [s EXCEPT !.bookmarks[chatId] =
                    @ \cup {[id |-> id, linkedMessageId |-> linked,
                             chatId |-> chatId]}]]

\* save_bookmark: needs a chatId naming a chat document that exists.
save_bookmark(s, id, linked, chatId) ==
    IF ~db \/ chatId = None \/ chatId \notin DOMAIN s.chats
    THEN [id |-> None, s |-> s]
    ELSE [id |-> id,
          s |-> [s EXCEPT !.bookmarks[chatId] =
                    @ \cup {[id |-> id, linkedMessageId |-> linked,
                             chatId |-> chatId]}]]

\* delete_bookmark without chat_id: the for/else search over the chats.
delete_bookmark(s, bid) ==
    LET holders == { c \in get_user_chats(s) :
                        \E b \in s.bookmarks[c] : b.id = bid }
    IN  IF ~db \/ holders = {} THEN [ok |-> FALSE, s |-> s]
        ELSE LET c == CHOOSE x \in holders : TRUE
             IN  [ok |-> TRUE,
                  s |-> [s EXCEPT !.bookmarks[c] =
                            { b \in @ : b.id # bid }]]

\* A sweep that leaves the bookmarks where they are.
delete_chat_bookmarks_Nothing(s, c) ==
    IF ~db THEN [ok |-> FALSE, s |-> s] ELSE [ok |-> TRUE, s |-> s]

delete_chat_bookmarks(s, c) ==
    IF ~db THEN [ok |-> FALSE, s |-> s]
    ELSE [ok |-> TRUE, s |-> [s EXCEPT !.bookmarks[c] = {}]]

delete_all_bookmarks(s) ==
    IF ~db THEN [ok |-> FALSE, s |-> s]
    ELSE [ok |-> TRUE,
          s |-> [s EXCEPT !.bookmarks =
                    [c \in ChatIds |->
                        IF c \in get_user_chats(s) THEN {} ELSE s.bookmarks[c]]]]

delete_chat_messages(s, c) ==
    IF ~db THEN [ok |-> FALSE, s |-> s]
    ELSE [ok |-> TRUE, s |-> [s EXCEPT !.messages[c] = << >>]]

delete_all_chat_messages(s) ==
    IF ~db THEN [ok |-> FALSE, s |-> s]
    ELSE [ok |-> TRUE,
          s |-> [s EXCEPT !.messages =
                    [c \in ChatIds |->
                        IF c \in get_user_chats(s) THEN << >> ELSE s.messages[c]]]]

\* update_chat_name: update() of the chat document; NotFound when it does
\* not exist.
update_chat_name(s, c, name) ==
    IF ~db \/ c \notin DOMAIN s.chats THEN [ok |-> FALSE, s |-> s]
    ELSE [ok |-> TRUE, s |-> [s EXCEPT !.chats[c] = name]]

\* A touch that writes with set(merge), which creates the document.
update_chat_timestamp_Set(s, c) ==
    IF ~db THEN [ok |-> FALSE, s |-> s]
    ELSE [ok |-> TRUE,
          s |-> [s EXCEPT !.chats =
                    [x \in DOMAIN s.chats \cup {c} |->
                        IF x \in DOMAIN s.chats THEN s.chats[x]
                        ELSE DefaultChatName]]]

\* update_chat_timestamp: update() of lastUpdated, which the model does not
\* keep; NotFound when the chat document does not exist.
update_chat_timestamp(s, c) ==
    IF ~db \/ c \notin DOMAIN s.chats THEN [ok |-> FALSE, s |-> s]
    ELSE [ok |-> TRUE, s |-> s]

\* A cascade that forgets the bookmarks subcollection.
delete_chat_KeepBookmarks(s, c) ==
    IF ~db \/ c \notin DOMAIN s.chats THEN [ok |-> FALSE, s |-> s]
    ELSE [ok |-> TRUE,
          s |-> [chats |-> [x \in DOMAIN s.chats \ {c} |-> s.chats[x]],
                 messages |-> [s.messages EXCEPT ![c] = << >>],
                 bookmarks |-> s.bookmarks]]

\* A cascade that does not look whether the chat document exists.
delete_chat_NoExistenceCheck(s, c) ==
    IF ~db THEN [ok |-> FALSE, s |-> s]
    ELSE [ok |-> TRUE,
          s |-> [chats |-> [x \in DOMAIN s.chats \ {c} |-> s.chats[x]],
                 messages |-> [s.messages EXCEPT ![c] = << >>],
                 bookmarks |-> [s.bookmarks EXCEPT ![c] = {}]]]

\* delete_chat: bookmarks, then messages, then the chat document.
delete_chat(s, c) ==
    IF ~db \/ c \notin DOMAIN s.chats THEN [ok |-> FALSE, s |-> s]
    ELSE [ok |-> TRUE,
          s |-> [chats |-> [x \in DOMAIN s.chats \ {c} |-> s.chats[x]],
                 messages |-> [s.messages EXCEPT ![c] = << >>],
                 bookmarks |-> [s.bookmarks EXCEPT ![c] = {}]]]

update_chat_message(s, c, mid, text) ==
    IF ~db \/ mid \notin MsgIdsOf(s, c) THEN [ok |-> FALSE, s |-> s]
    ELSE [ok |-> TRUE,
          s |-> [s EXCEPT !.messages[c] =
                    [i \in 1..Len(@) |->
                        IF @[i].id = mid THEN [@[i] EXCEPT !.message = text]
                        ELSE @[i]]]]

RemoveAt(seq, i) == SubSeq(seq, 1, i - 1) \o SubSeq(seq, i + 1, Len(seq))

\* The position of user message mid in seq, 0 when there is none.
UserPos(seq, mid) ==
    IF \E i \in 1..Len(seq) : seq[i].id = mid /\ seq[i].sender = "user"
    THEN CHOOSE i \in 1..Len(seq) : seq[i].id = mid /\ seq[i].sender = "user"
    ELSE 0

FollowedByTutor(seq, mid) ==
    LET i == UserPos(seq, mid)
    IN  i > 0 /\ i + 1 <= Len(seq) /\ seq[i + 1].sender = "tutor"

\* delete_followup_assistant_message: deletes messages[i + 1] when it is a
\* tutor message; True when there is none to delete, False when the user
\* message is not found.
delete_followup_assistant_message(s, c, mid) ==
    LET seq == get_chat_history_by_chat(s, c)
        i == UserPos(seq, mid)
    IN  IF ~db \/ i = 0 THEN [ok |-> FALSE, s |-> s]
        ELSE IF ~FollowedByTutor(seq, mid) THEN [ok |-> TRUE, s |-> s]
        ELSE [ok |-> TRUE,
              s |-> [s EXCEPT !.messages[c] = RemoveAt(@, i + 1)]]

\* Every bookmark document of the store, and those linked to message mid.
AllBookmarks == UNION { bookmarks[c] : c \in ChatIds }
BookmarksOf(mid) == { b \in AllBookmarks : b.linkedMessageId = mid }

\* Every message document of the store, whatever chat holds it.
AllMessages ==
    UNION { { messages[c][i] : i \in 1..Len(messages[c]) } : c \in ChatIds }

\* ------------------------------------------------------------ handlers
\* A handler is an operator from the request to what it answers and the
\* store it leaves (Result), and an action that takes the step.

\* One more request is taken, while the run has room for it. The chat and
\* bookmark handlers touch neither the uploads nor the disk nor the session.
HandledLog(log) ==
    /\ requests < MaxRequests
    /\ requests' = requests + 1
    /\ chat_history' = log
    /\ UNCHANGED inflight
    /\ UNCHANGED uploadVars

Handled == HandledLog(chat_history)

\* An entry of chat_history. by is not a key of the entry: it keeps whose
\* request appended it.
Turn(u, user_message, ai_reply) ==
    [user_message |-> user_message, ai_reply |-> ai_reply, by |-> u]

Resp(op, code) == [NoLast EXCEPT !.op = op, !.code = code]

Bump(f, c) == [f EXCEPT ![c] = @ + 1]

NoSolo == [c \in ChatIds |-> FALSE]

\* The chat and message ids a request can name: one the store handed out,
\* 0 (one it never handed out), or none at all.
ChatArgs == {None} \cup (0..(nextChat - 1))
MsgArgs == {None} \cup (0..(nextMsg - 1))
BookmarkArgs == 0..(nextBm - 1)

\* POST /chat. aiOk: get_ai_response returned a text (None when the
\* generation call raised).
chatResult(text, chatId, aiOk) ==
    IF text = NoText
    THEN [s |-> Store, code |-> 400, chat |-> chatId, created |-> FALSE,
          saved |-> 0, renamed |-> FALSE]
    ELSE
    LET new == IF chatId = None
               THEN create_chat(Store, nextChat, DefaultChatName)
               ELSE [id |-> chatId, s |-> Store]
        c == new.id
        made == chatId = None /\ c # None
    IN  IF c = None
        THEN [s |-> Store, code |-> 500, chat |-> None, created |-> FALSE,
              saved |-> 0, renamed |-> FALSE]
        ELSE IF ~aiOk
        THEN [s |-> new.s, code |-> 500, chat |-> c, created |-> made,
              saved |-> 0, renamed |-> FALSE]
        ELSE
        LET u == save_chat_message(new.s, c, nextMsg, "user", text)
            t == save_chat_message(u.s, c,
                                   IF u.id = None THEN nextMsg ELSE nextMsg + 1,
                                   "tutor", Reply)
            ts == update_chat_timestamp(t.s, c)
            chat_messages == get_chat_history_by_chat(ts.s, c)
            rn == IF Len(chat_messages) = 2
                  THEN update_chat_name(ts.s, c, AutoChatName(text))
                  ELSE [ok |-> FALSE, s |-> ts.s]
        IN  [s |-> rn.s, code |-> 200, chat |-> c, created |-> made,
             saved |-> (IF u.id = None THEN 0 ELSE 1)
                       + (IF t.id = None THEN 0 ELSE 1),
             renamed |-> rn.ok]

chat_by(u, text, chatId, aiOk) ==
    LET r == chatResult(text, chatId, aiOk)
    IN  /\ HandledLog(IF r.code = 200
                      THEN Append(chat_history, Turn(u, text, Reply))
                      ELSE chat_history)
        /\ SetStore(r.s)
        /\ nextChat' = IF r.created THEN nextChat + 1 ELSE nextChat
        /\ nextMsg' = nextMsg + r.saved
        /\ last' = [Resp("chat", r.code) EXCEPT
                        !.chat = r.chat, !.renamed = r.renamed,
                        !.user = u,
                        !.message = text,
                        !.invalid = (text = NoText),
                        !.aiFailed = (text # NoText /\ r.chat # None /\ ~aiOk),
                        !.nmsgs = IF r.chat \in ChatIds
                                  THEN Len(messages[r.chat]) ELSE 0]
        /\ renames' = IF r.renamed
                      THEN [renames EXCEPT ![r.chat] = Min(@ + 1, 2)]
                      ELSE renames
        /\ turns' = IF r.code = 200 THEN Bump(turns, r.chat) ELSE turns
        /\ solo' = IF r.code = 200 /\ r.created
                   THEN [solo EXCEPT ![r.chat] = TRUE] ELSE solo
        /\ UNCHANGED <<db, nextBm>>

chat(text, chatId, aiOk) == chat_by(Owner, text, chatId, aiOk)

\* POST /chat/edit-regenerate.
edit_regenerateResult(mid, text, chatId, aiOk) ==
    IF mid = None \/ text = NoText \/ chatId = None
    THEN [s |-> Store, code |-> 400, saved |-> 0]
    ELSE
    LET upd == update_chat_message(Store, chatId, mid, text)
        del == delete_followup_assistant_message(upd.s, chatId, mid)
    IN  IF ~upd.ok THEN [s |-> Store, code |-> 500, saved |-> 0]
        ELSE IF ~aiOk THEN [s |-> del.s, code |-> 500, saved |-> 0]
        ELSE
        LET t == save_chat_message(del.s, chatId, nextMsg, "tutor", Reply)
            ts == update_chat_timestamp(t.s, chatId)
        IN  [s |-> ts.s, code |-> 200,
             saved |-> IF t.id = None THEN 0 ELSE 1]

edit_regenerate(mid, text, chatId, aiOk) ==
    LET r == edit_regenerateResult(mid, text, chatId, aiOk)
    IN  /\ Handled
        /\ SetStore(r.s)
        /\ nextMsg' = nextMsg + r.saved
        /\ last' = [Resp("edit_regenerate", r.code) EXCEPT
                        !.chat = chatId, !.msg = mid,
                        !.aiFailed =
                            /\ mid # None /\ text # NoText /\ chatId # None
                            /\ update_chat_message(Store, chatId, mid, text).ok
                            /\ ~aiOk,
                        !.nmsgs = IF chatId \in ChatIds
                                  THEN Len(messages[chatId]) ELSE 0,
                        !.followed = chatId \in ChatIds /\ mid # None
                                     /\ FollowedByTutor(messages[chatId], mid)]
        /\ solo' = NoSolo
        /\ UNCHANGED <<db, nextChat, nextBm, renames, turns>>

\* POST /chats.
create_new_chat(name) ==
    LET r == create_chat(Store, nextChat, name)
    IN  /\ Handled
        /\ SetStore(r.s)
        /\ nextChat' = IF r.id = None THEN nextChat ELSE nextChat + 1
        /\ last' = [Resp("create_new_chat", IF r.id = None THEN 500 ELSE 200)
                        EXCEPT !.chat = r.id]
        /\ solo' = NoSolo
        /\ UNCHANGED <<db, nextMsg, nextBm, renames, turns>>

\* PUT /chats/{id}/rename.
rename_chat_endpointResult(c, newName) ==
    IF ~db THEN [s |-> Store, code |-> 500]
    ELSE IF newName = NoText THEN [s |-> Store, code |-> 400]
    ELSE LET r == update_chat_name(Store, c, newName)
         IN  [s |-> r.s, code |-> IF r.ok THEN 200 ELSE 500]

rename_chat_endpoint(c, newName) ==
    LET r == rename_chat_endpointResult(c, newName)
    IN  /\ Handled
        /\ SetStore(r.s)
        /\ last' = [Resp("rename_chat", r.code) EXCEPT
                        !.chat = c, !.invalid = (newName = NoText)]
        /\ solo' = NoSolo
        /\ UNCHANGED <<db, nextChat, nextMsg, nextBm, renames, turns>>

\* DELETE /chats/{id}.
delete_chat_endpointResult(c) ==
    IF ~db THEN [s |-> Store, code |-> 500]
    ELSE LET r == delete_chat(Store, c)
         IN  [s |-> r.s, code |-> IF r.ok THEN 200 ELSE 500]

delete_chat_endpoint(c) ==
    LET r == delete_chat_endpointResult(c)
    IN  /\ Handled
        /\ SetStore(r.s)
        /\ last' = [Resp("delete_chat", r.code) EXCEPT
                        !.chat = c,
                        !.nmsgs = Len(messages[c]),
                        !.nbms = Cardinality(bookmarks[c])]
        /\ solo' = NoSolo
        /\ UNCHANGED <<db, nextChat, nextMsg, nextBm, renames, turns>>

\* POST /bookmarks. snippetOk: the snippet is not empty after strip().
create_bookmarkResult(linked, snippetOk, chatId) ==
    IF linked = None \/ ~snippetOk \/ chatId = None
    THEN [s |-> Store, code |-> 400, bm |-> None]
    ELSE IF ~db THEN [s |-> Store, code |-> 200, bm |-> None]
    ELSE LET b == save_bookmark(Store, nextBm, linked, chatId)
         IN  IF b.id = None THEN [s |-> Store, code |-> 500, bm |-> None]
             ELSE [s |-> update_message_bookmark(b.s, linked, TRUE).s,
                   code |-> 200, bm |-> b.id]

create_bookmark(linked, snippetOk, chatId) ==
    LET r == create_bookmarkResult(linked, snippetOk, chatId)
    IN  /\ Handled
        /\ SetStore(r.s)
        /\ nextBm' = IF r.bm = None THEN nextBm ELSE nextBm + 1
        /\ last' = [Resp("create_bookmark", r.code) EXCEPT
                        !.chat = chatId, !.msg = linked, !.bm = r.bm,
                        !.invalid = (linked = None \/ ~snippetOk
                                        \/ chatId = None)]
        /\ solo' = NoSolo
        /\ UNCHANGED <<db, nextChat, nextMsg, renames, turns>>

\* The bookmark document with id bid among bs, as a set of at most one.
WithId(bs, bid) == { b \in bs : b.id = bid }

\* DELETE /bookmarks/{id}.
delete_bookmark_endpointResult(bid) ==
    IF ~db THEN [s |-> Store, code |-> 200, msg |-> None]
    ELSE
    LET found == WithId(get_bookmarks(Store), bid)
        d == delete_bookmark(Store, bid)
    IN  IF ~d.ok THEN [s |-> Store, code |-> 500, msg |-> None]
        ELSE IF found = {} THEN [s |-> d.s, code |-> 200, msg |-> None]
        ELSE LET linked == (CHOOSE b \in found : TRUE).linkedMessageId
             IN  [s |-> update_message_bookmark(d.s, linked, FALSE).s,
                  code |-> 200, msg |-> linked]

delete_bookmark_endpoint(bid) ==
    LET r == delete_bookmark_endpointResult(bid)
    IN  /\ Handled
        /\ SetStore(r.s)
        /\ last' = [Resp("delete_bookmark", r.code) EXCEPT
                        !.bm = bid, !.msg = r.msg]
        /\ solo' = NoSolo
        /\ UNCHANGED <<db, nextChat, nextMsg, nextBm, renames, turns>>

\* get_bookmarks sorts newest first, and ids grow with time: the first
\* bookmark the toggle loop meets for a message is the one of greatest id.
NewestFor(bs, mid) ==
    LET of == { b \in bs : b.linkedMessageId = mid }
    IN  { b \in of : \A x \in of : x.id <= b.id }

\* PUT /bookmarks/message/{id}. The bookmark_data it builds has no chatId.
toggle_message_bookmarkResult(mid, bookmarked, snippetOk) ==
    IF bookmarked /\ ~snippetOk THEN [s |-> Store, code |-> 400, bm |-> None]
    ELSE IF ~db THEN [s |-> Store, code |-> 200, bm |-> None]
    ELSE
    LET f == update_message_bookmark(Store, mid, bookmarked)
    IN  IF ~f.ok THEN [s |-> Store, code |-> 500, bm |-> None]
        ELSE IF bookmarked
        THEN LET b == save_bookmark(f.s, nextBm, mid, None)
             IN  [s |-> b.s, code |-> 200, bm |-> b.id]
        ELSE LET hit == NewestFor(get_bookmarks(f.s), mid)
             IN  IF hit = {} THEN [s |-> f.s, code |-> 200, bm |-> None]
                 ELSE LET bid == (CHOOSE b \in hit : TRUE).id
                      IN  [s |-> delete_bookmark(f.s, bid).s,
                           code |-> 200, bm |-> bid]

toggle_message_bookmark(mid, bookmarked, snippetOk) ==
    LET r == toggle_message_bookmarkResult(mid, bookmarked, snippetOk)
        made == bookmarked /\ r.bm # None
    IN  /\ Handled
        /\ SetStore(r.s)
        /\ nextBm' = IF made THEN nextBm + 1 ELSE nextBm
        /\ last' = [Resp(IF bookmarked THEN "toggle_on" ELSE "toggle_off",
                         r.code)
                        EXCEPT !.msg = mid, !.bm = r.bm,
                               !.nbms = Cardinality(BookmarksOf(mid))]
        /\ solo' = NoSolo
        /\ UNCHANGED <<db, nextChat, nextMsg, renames, turns>>

\* POST /bookmarks/clear.
clear_all_bookmarks ==
    LET r == delete_all_bookmarks(Store)
    IN  /\ Handled
        /\ SetStore(r.s)
        /\ last' = Resp("clear_all_bookmarks", IF r.ok THEN 200 ELSE 500)
        /\ solo' = NoSolo
        /\ UNCHANGED <<db, nextChat, nextMsg, nextBm, renames, turns>>

\* POST /history/clear: the messages of every chat, then the bookmarks.
clear_history_by(u) ==
    LET m == delete_all_chat_messages(Store)
        b == delete_all_bookmarks(m.s)
    IN  /\ HandledLog(<< >>)
        /\ SetStore(b.s)
        /\ last' = [Resp("clear_history", 200) EXCEPT
                        !.user = u,
                        !.nmsgs = Cardinality(AllMessages),
                        !.nbms = Cardinality(AllBookmarks)]
        /\ solo' = NoSolo
        /\ UNCHANGED <<db, nextChat, nextMsg, nextBm, renames, turns>>

clear_history == clear_history_by(Owner)

\* POST /history/clear-chat/{id}.
clear_chat_messages(c) ==
    LET m == delete_chat_messages(Store, c)
        b == delete_chat_bookmarks(m.s, c)
    IN  /\ Handled
        /\ SetStore(b.s)
        /\ last' = [Resp("clear_chat", 200) EXCEPT
                        !.chat = c,
                        !.nmsgs = Len(messages[c]),
                        !.nbms = Cardinality(bookmarks[c])]
        /\ solo' = NoSolo
        /\ UNCHANGED <<db, nextChat, nextMsg, nextBm, renames, turns>>

Next ==
    \/ \E text \in Texts \cup {NoText}, chatId \in ChatArgs, aiOk \in BOOLEAN :
            chat(text, chatId, aiOk)
    \/ \E mid \in MsgArgs, text \in Texts \cup {NoText}, chatId \in ChatArgs,
          aiOk \in BOOLEAN :
            edit_regenerate(mid, text, chatId, aiOk)
    \/ \E name \in {DefaultChatName, ManualName} : create_new_chat(name)
    \/ \E c \in ChatArgs \ {None}, newName \in {ManualName, NoText} :
            rename_chat_endpoint(c, newName)
    \/ \E c \in ChatArgs \ {None} : delete_chat_endpoint(c)
    \/ \E linked \in MsgArgs, snippetOk \in BOOLEAN, chatId \in ChatArgs :
            create_bookmark(linked, snippetOk, chatId)
    \/ \E bid \in BookmarkArgs : delete_bookmark_endpoint(bid)
    \/ \E mid \in MsgArgs \ {None}, bookmarked \in BOOLEAN,
          snippetOk \in BOOLEAN :
            toggle_message_bookmark(mid, bookmarked, snippetOk)
    \/ clear_all_bookmarks
    \/ clear_history
    \/ \E c \in ChatArgs \ {None} : clear_chat_messages(c)

Spec == Init /\ [][Next]_vars

\* -------------------------------------------------------------- uploads
\* POST /upload, GET /files/{id} and DELETE /uploads/{id}, over the
\* uploads collection of each user and the files of UPLOADS_DIR.
\*
\* A file name is the list of its characters, a run of letters and digits
\* written as one element ("a", "pdf"). " " is a blank, "/" the path
\* separator, "U+6587" a character outside ASCII with no ASCII form.
\* A file write or a document write that the operating system or the
\* store refuses is not part of this model.

\* The requests of one run of the upload handlers, and the uploads among
\* them.
MaxFileRequests == 2
MaxUploads == 1

MAX_FILE_SIZE == 16 * 1024 * 1024
MAX_CONTENT_LENGTH == 16 * 1024 * 1024

ALLOWED_EXTENSIONS ==
    [pdf |-> {"pdf"},
     image |-> {"png", "jpg", "jpeg", "gif", "bmp", "tiff"}]

\* request.files['file']: part says whether the form has the part at all.
File(filename, content_type, size, content) ==
    [part |-> TRUE, filename |-> filename, content_type |-> content_type,
     size |-> size, content |-> content]

Files ==
    { [part |-> FALSE, filename |-> << >>, content_type |-> "", size |-> 0,
       content |-> ""],
      File(<< >>, "", 0, ""),
      File(<<"a", ".", "pdf">>, "application/pdf", 5, "%PDF1"),
      File(<<"a", ".", "pdf", ".">>, "", 5, "%PDF2"),
      File(<<"a", ".", "PDF">>, "application/pdf", 0, ""),
      File(<<"my", " ", "a", ".", "tar", ".", "png">>, "image/png", 5, "PNG01"),
      File(<<".", "pdf">>, "application/pdf", 5, "%PDF1"),
      File(<<"U+6587", ".", "png">>, "image/png", 5, "PNG01"),
      File(<<"a", ".", "exe">>, "", 5, "MZ000"),
      File(<<"notes">>, "text/plain", 5, "notes"),
      File(<<"a", ".", "pdf">>, "application/pdf", MAX_FILE_SIZE + 1, "large") }

\* request.form['chapter'] after strip().
Chapters == { << >>, <<"ch1">> }

Reverse(seq) == [i \in 1..Len(seq) |-> seq[Len(seq) + 1 - i]]

RECURSIVE TrimLeft(_, _)
TrimLeft(seq, drop) ==
    IF seq # << >> /\ Head(seq) \in drop THEN TrimLeft(Tail(seq), drop)
    ELSE seq

\* str.strip(chars)
Trim(seq, drop) == Reverse(TrimLeft(Reverse(TrimLeft(seq, drop)), drop))

\* "_".join(words) of a name without leading or trailing blanks: every run
\* of blanks becomes one "_".
RECURSIVE JoinWords(_)
JoinWords(seq) ==
    IF seq = << >> THEN << >>
    ELSE IF Head(seq) = " "
    THEN <<"_">> \o JoinWords(TrimLeft(seq, {" "}))
    ELSE <<Head(seq)>> \o JoinWords(Tail(seq))

\* werkzeug's secure_filename: characters outside ASCII are dropped, path
\* separators become blanks, "_".join(filename.split()), characters other
\* than letters, digits, "_", ".", "-" are dropped (none is left here), and
\* "." and "_" are stripped from both ends.
secure_filename(name) ==
    LET ascii == SelectSeq(name, LAMBDA t : t # "U+6587")
        blank == [i \in 1..Len(ascii) |->
                    IF ascii[i] = "/" THEN " " ELSE ascii[i]]
    IN  Trim(JoinWords(Trim(blank, {" "})), {".", "_"})

\* The index of the last "." of a name, 0 when it has none.
LastDot(name) ==
    IF \E i \in 1..Len(name) : name[i] = "."
    THEN CHOOSE i \in 1..Len(name) :
            name[i] = "." /\ \A j \in (i + 1)..Len(name) : name[j] # "."
    ELSE 0

Lower(t) == IF t = "PDF" THEN "pdf" ELSE t

\* filename.rsplit('.', 1)[1].lower(); IndexError when the name has no ".".
RsplitExtension(name) ==
    LET tail == SubSeq(name, LastDot(name) + 1, Len(name))
    IN  [i \in 1..Len(tail) |-> Lower(tail[i])]

InExtensions(ext, allowed) == Len(ext) = 1 /\ ext[1] \in allowed

\* os.path.splitext(filename)[1]: from the last "." on, unless only dots
\* come before it.
splitext(name) ==
    LET d == LastDot(name)
    IN  IF d > 0 /\ \E i \in 1..(d - 1) : name[i] # "."
        THEN SubSeq(name, d, Len(name))
        ELSE << >>

TokenLen(t) ==
    CASE t \in {"pdf", "PDF", "png", "exe", "tar"} -> 3
      [] t = "my" -> 2
      [] OTHER -> 1

RECURSIVE NameLen(_)
NameLen(name) ==
    IF name = << >> THEN 0 ELSE TokenLen(Head(name)) + NameLen(Tail(name))

\* An extracted text: its length, and its length after strip().
Text(len, core) ==
    [len |-> len, core |-> core, placeholder |-> FALSE, filename |-> << >>]

\* f"PDF file '{filename}' uploaded but text extraction failed. ..."
Placeholder(filename) ==
    [len |-> 123 + NameLen(filename), core |-> 123 + NameLen(filename),
     placeholder |-> TRUE, filename |-> filename]

\* extracted_text[:1000] + "..." if len(extracted_text) > 1000 else
\* extracted_text: a cut text is no longer the text it was cut from.
Truncated(t) ==
    IF t.len > 1000 THEN Text(1000 + 3, 1000 + 3) ELSE t

\* What an extraction method finds in the file: it raises, or it reads a
\* text of core characters apart from surrounding white space.
Raised == [raised |-> TRUE, core |-> 0]
Found(core) == [raised |-> FALSE, core |-> core]

\* What direct extraction, the first OCR pass and the second OCR pass find
\* in one file (an image has the first only): every method raises; the
\* text layer is long; the text layer is short and OCR adds nothing; each
\* pass finds a little more; nothing finds ten characters; nothing finds
\* any.
Extractions ==
    { [direct |-> Raised, ocr |-> Raised, adv |-> Raised],
      [direct |-> Found(1001), ocr |-> Raised, adv |-> Raised],
      [direct |-> Found(21), ocr |-> Found(0), adv |-> Found(9)],
      [direct |-> Found(9), ocr |-> Found(9), adv |-> Found(21)],
      [direct |-> Found(9), ocr |-> Found(0), adv |-> Found(9)],
      [direct |-> Found(0), ocr |-> Found(0), adv |-> Found(0)] }

\* extract_text_from_pdf returns text.strip(); upload_file keeps "" when it
\* raises.
extract_text_from_pdf(o) == IF o.raised THEN Text(0, 0) ELSE Text(o.core, o.core)

\* not extracted_text or len(extracted_text.strip()) < 50
TooShort(t, least) == t.len = 0 \/ t.core < least

\* The OCR passes: ocr_text is page_text + "\n" of the page when the page
\* text has more than least characters, and replaces the text so far when
\* it is not blank.
OcrPass(t, o, least) ==
    IF TooShort(t, 50) /\ ~o.raised /\ o.core > least
    THEN Text(o.core + 1, o.core)
    ELSE t

\* An extraction that keeps whatever the three methods left.
ExtractPdf_KeepShort(filename, direct, ocr, adv) ==
    OcrPass(OcrPass(extract_text_from_pdf(direct), ocr, 0), adv, 20)

ExtractPdf(filename, direct, ocr, adv) ==
    LET t3 == OcrPass(OcrPass(extract_text_from_pdf(direct), ocr, 0), adv, 20)
    IN  IF TooShort(t3, 10) THEN Placeholder(filename) ELSE t3

\* extract_text_from_image returns text.strip(), and raises what OCR raises.
extract_text_from_image(o) == Text(o.core, o.core)

\* session['chapter_context'][key] = text
Put(ctx, key, text) ==
    { e \in ctx : e.key # key } \cup {[key |-> key, text |-> text]}

DiskName(upload_id, ext) == <<upload_id, ext>>

\* A save that names the file by the lower-cased extension upload_file
\* computed.
save_file_to_disk_LowerExtension(d, content, filename, upload_id) ==
    LET nm == DiskName(upload_id, <<".">> \o RsplitExtension(filename))
    IN  { f \in d : f.name # nm } \cup {[name |-> nm, content |-> content]}

\* save_file_to_disk: open(f"{upload_id}{splitext(filename)[1]}", 'wb').
save_file_to_disk(d, content, filename, upload_id) ==
    LET nm == DiskName(upload_id, splitext(filename))
    IN  { f \in d : f.name # nm } \cup {[name |-> nm, content |-> content]}

delete_file_from_disk(d, upload_id, filename) ==
    { f \in d : f.name # DiskName(upload_id, splitext(filename)) }

save_upload(ups, u, id, upload_data) ==
    IF ~db THEN [id |-> None, uploads |-> ups]
    ELSE [id |-> id,
          uploads |-> [ups EXCEPT ![u] = @ \cup {[upload_data EXCEPT !.id = id]}]]

get_uploads(ups, u) == IF db THEN ups[u] ELSE {}

\* delete_upload of firebase_config: delete() of a document that does not
\* exist is no error.
firebase_delete_upload(ups, u, id) ==
    IF ~db THEN [ok |-> FALSE, uploads |-> ups]
    ELSE [ok |-> TRUE,
          uploads |-> [ups EXCEPT ![u] = { r \in @ : r.id # id }]]

FileRequest ==
    /\ requests < MaxFileRequests
    /\ requests' = requests + 1
    /\ UNCHANGED chatVars
    /\ UNCHANGED <<db, inflight, chat_history>>

UploadArgs == 0..(nextUpload - 1)

Refused(code) ==
    [code |-> code, uploads |-> uploads, disk |-> disk, session |-> session,
     id |-> None, name |-> << >>]

\* The uploads the handler means to refuse as invalid input: no file part,
\* an empty file name, a file above MAX_FILE_SIZE, a file name with no "."
\* in it, or an extension outside ALLOWED_EXTENSIONS.
InvalidUpload(file) ==
    \/ ~file.part
    \/ file.filename = << >>
    \/ file.size > MAX_FILE_SIZE
    \/ LastDot(file.filename) = 0
    \/ LET ext == RsplitExtension(secure_filename(file.filename))
       IN  /\ LastDot(secure_filename(file.filename)) # 0
           /\ ~InExtensions(ext, ALLOWED_EXTENSIONS.pdf)
           /\ ~InExtensions(ext, ALLOWED_EXTENSIONS.image)

\* POST /upload. The request body is the file and at least one byte of
\* multipart framing: above MAX_CONTENT_LENGTH request.files raises
\* RequestEntityTooLarge, inside the handler's try.
upload_fileResult(u, file, chapter, x) ==
    IF file.part /\ file.size + 1 > MAX_CONTENT_LENGTH THEN Refused(500)
    ELSE IF ~file.part \/ file.filename = << >> THEN Refused(400)
    ELSE IF file.size > MAX_FILE_SIZE THEN Refused(413)
    ELSE
    LET filename == secure_filename(file.filename)
        file_extension == RsplitExtension(filename)
        pdf == InExtensions(file_extension, ALLOWED_EXTENSIONS.pdf)
        image == InExtensions(file_extension, ALLOWED_EXTENSIONS.image)
    IN  IF LastDot(filename) = 0 THEN Refused(500)
        ELSE IF ~pdf /\ ~image THEN Refused(400)
        ELSE IF image /\ x.direct.raised THEN Refused(500)
        ELSE
        LET extracted_text ==
                IF pdf THEN ExtractPdf(filename, x.direct, x.ocr, x.adv)
                ELSE extract_text_from_image(x.direct)
            c1 == IF extracted_text.len > 0
                  THEN Put(session[u], filename, extracted_text)
                  ELSE session[u]
            c2 == IF chapter # << >> /\ extracted_text.len > 0
                  THEN Put(c1, chapter, extracted_text)
                  ELSE c1
            upload_data ==
                [id |-> None,
                 fileName |-> filename,
                 fileType |-> IF file.content_type # ""
                              THEN <<file.content_type>>
                              ELSE <<"application/">> \o file_extension,
                 fileSize |-> file.size,
                 contentLength |-> extracted_text.len,
                 chapter |-> chapter,
                 extractedText |-> Truncated(extracted_text)]
            saved == save_upload(uploads, u, nextUpload, upload_data)
        IN  [code |-> 200,
             uploads |-> saved.uploads,
             disk |-> save_file_to_disk(disk, file.content, filename, nextUpload),
             session |-> [session EXCEPT ![u] = c2],
             id |-> nextUpload,
             name |-> filename]

\* A PDF the handler accepts in which no extraction method finds ten
\* characters.
TextlessPdf(file, x) ==
    /\ file.part
    /\ file.size + 1 <= MAX_CONTENT_LENGTH /\ file.size <= MAX_FILE_SIZE
    /\ LastDot(secure_filename(file.filename)) # 0
    /\ InExtensions(RsplitExtension(secure_filename(file.filename)),
                    ALLOWED_EXTENSIONS.pdf)
    /\ \A o \in {x.direct, x.ocr, x.adv} : o.raised \/ o.core < 10

\* An image the handler accepts whose OCR raises or finds fewer than ten
\* characters.
TextlessImage(file, x) ==
    /\ file.part
    /\ file.size + 1 <= MAX_CONTENT_LENGTH /\ file.size <= MAX_FILE_SIZE
    /\ LastDot(secure_filename(file.filename)) # 0
    /\ InExtensions(RsplitExtension(secure_filename(file.filename)),
                    ALLOWED_EXTENSIONS.image)
    /\ x.direct.raised \/ x.direct.core < 10

\* The response r of POST /upload and what it leaves behind.
upload_fileDone(u, file, x, r) ==
        /\ FileRequest
        /\ nextUpload <= MaxUploads
        /\ uploads' = r.uploads
        /\ disk' = r.disk
        /\ session' = r.session
        /\ nextUpload' = IF r.id = None THEN nextUpload ELSE nextUpload + 1
        /\ sent' = IF r.id = None THEN sent
                   ELSE [i \in DOMAIN sent \cup {r.id} |->
                            IF i = r.id
                            THEN [user |-> u, content |-> file.content,
                                  name |-> r.name]
                            ELSE sent[i]]
        /\ last' = [Resp("upload_file", r.code) EXCEPT
                        !.user = u, !.upload = r.id, !.name = r.name,
                        !.content = file.content,
                        !.invalid = InvalidUpload(file),
                        !.textless = TextlessPdf(file, x),
                        !.textlessImage = TextlessImage(file, x)]

upload_file(u, file, chapter, x) ==
    upload_fileDone(u, file, x, upload_fileResult(u, file, chapter, x))

\* POST /upload when open() or write() raises in save_file_to_disk: it
\* returns None, upload_file logs the failure and answers as before, with
\* the metadata stored and no file on disk.
upload_file_unsaved(u, file, chapter, x) ==
    LET r == upload_fileResult(u, file, chapter, x)
    IN  /\ r.code = 200
        /\ upload_fileDone(u, file, x, [r EXCEPT !.disk = disk])

\* A lookup of the metadata among the uploads of every user.
serve_file_by_idResult_AnyUser(u, upload_id) ==
    LET found == UNION { { r \in get_uploads(uploads, v) : r.id = upload_id } :
                            v \in Users }
    IN  IF ~db \/ found = {}
        THEN [code |-> 404, content |-> "", name |-> << >>]
        ELSE
        LET filename == (CHOOSE r \in found : TRUE).fileName
            nm == DiskName(upload_id, splitext(filename))
            onDisk == { f \in disk : f.name = nm }
        IN  IF onDisk = {}
            THEN [code |-> 404, content |-> "", name |-> << >>]
            ELSE [code |-> 200,
                  content |-> (CHOOSE f \in onDisk : TRUE).content,
                  name |-> filename]

\* GET /files/{id}: send_file of UPLOADS_DIR/{id}{ext}, download_name the
\* stored fileName.
serve_file_by_idResult(u, upload_id) ==
    LET found == { r \in get_uploads(uploads, u) : r.id = upload_id }
    IN  IF ~db \/ found = {}
        THEN [code |-> 404, content |-> "", name |-> << >>]
        ELSE
        LET filename == (CHOOSE r \in found : TRUE).fileName
            nm == DiskName(upload_id, splitext(filename))
            onDisk == { f \in disk : f.name = nm }
        IN  IF onDisk = {}
            THEN [code |-> 404, content |-> "", name |-> << >>]
            ELSE [code |-> 200,
                  content |-> (CHOOSE f \in onDisk : TRUE).content,
                  name |-> filename]

serve_file_by_id(u, upload_id) ==
    LET r == serve_file_by_idResult(u, upload_id)
    IN  /\ FileRequest
        /\ last' = [Resp("serve_file_by_id", r.code) EXCEPT
                        !.user = u, !.upload = upload_id, !.name = r.name,
                        !.content = r.content]
        /\ UNCHANGED uploadVars

\* DELETE /uploads/{id}: the document, then the file of the document found
\* before.
delete_uploadResult(u, upload_id) ==
    LET found == { r \in get_uploads(uploads, u) : r.id = upload_id }
        del == firebase_delete_upload(uploads, u, upload_id)
    IN  IF ~db \/ ~del.ok
        THEN [code |-> 500, uploads |-> uploads, disk |-> disk]
        ELSE [code |-> 200,
              uploads |-> del.uploads,
              disk |-> IF found = {} THEN disk
                       ELSE delete_file_from_disk(
                                disk, upload_id,
                                (CHOOSE r \in found : TRUE).fileName)]

delete_upload(u, upload_id) ==
    LET r == delete_uploadResult(u, upload_id)
    IN  /\ FileRequest
        /\ uploads' = r.uploads
        /\ disk' = r.disk
        /\ last' = [Resp("delete_upload", r.code) EXCEPT
                        !.user = u, !.upload = upload_id]
        /\ UNCHANGED <<session, nextUpload, sent>>

NextUpload ==
    \/ \E u \in Users, file \in Files, chapter \in Chapters,
          x \in Extractions :
            upload_file(u, file, chapter, x)
    \/ \E u \in Users, upload_id \in UploadArgs : serve_file_by_id(u, upload_id)
    \/ \E u \in Users, upload_id \in UploadArgs : delete_upload(u, upload_id)

SpecUpload == Init /\ [][NextUpload]_vars

\* The upload handlers with a blob directory whose writes can fail, for
\* the files the handler accepts: a text layer that is read, or no text.
FaultFiles ==
    { File(<<"a", ".", "pdf">>, "application/pdf", 5, "%PDF1"),
      File(<<"a", ".", "pdf", ".">>, "", 5, "%PDF2"),
      File(<<"my", " ", "a", ".", "tar", ".", "png">>, "image/png", 5, "PNG01") }

FaultExtractions ==
    { [direct |-> Found(21), ocr |-> Found(0), adv |-> Found(9)],
      [direct |-> Found(0), ocr |-> Found(0), adv |-> Found(0)] }

NextUploadFault ==
    \/ \E u \in Users, file \in FaultFiles, chapter \in Chapters,
          x \in FaultExtractions :
            upload_file(u, file, chapter, x)
    \/ \E u \in Users, file \in FaultFiles, chapter \in Chapters,
          x \in FaultExtractions :
            upload_file_unsaved(u, file, chapter, x)
    \/ \E u \in Users, upload_id \in UploadArgs : serve_file_by_id(u, upload_id)
    \/ \E u \in Users, upload_id \in UploadArgs : delete_upload(u, upload_id)

SpecUploadFault == Init /\ [][NextUploadFault]_vars

\* ------------------------------------------------- failing sub-deletions
\* delete_chat when a reference.delete() of the cascade raises. The stream
\* gives the documents in an order the model does not keep: done are the
\* documents deleted before the one that raises, f. The exception leaves the
\* loops, the except clause logs it and the function returns False.
delete_chat_failing(s, c, kind, done, f) ==
    IF kind = "bookmark"
    THEN [ok |-> FALSE,
          s |-> [s EXCEPT !.bookmarks[c] = { b \in @ : b.id \notin done }]]
    ELSE [ok |-> FALSE,
          s |-> [s EXCEPT !.bookmarks[c] = {},
                          !.messages[c] =
                              SelectSeq(@, LAMBDA m : m.id \notin done)]]

\* The documents of the kind under chat c, by id.
SubDocs(c, kind) ==
    IF kind = "bookmark" THEN { b.id : b \in bookmarks[c] }
    ELSE MsgIdsOf(Store, c)

\* DELETE /chats/{id} with a sub-deletion that raises.
delete_chat_endpoint_failing(c, kind, done, f) ==
    LET r == delete_chat_failing(Store, c, kind, done, f)
    IN  /\ db /\ c \in DOMAIN chats
        /\ done \subseteq SubDocs(c, kind)
        /\ f \in SubDocs(c, kind) \ done
        /\ Handled
        /\ SetStore(r.s)
        /\ last' = [Resp("delete_chat", 500) EXCEPT
                        !.chat = c,
                        !.nmsgs = Len(messages[c]),
                        !.nbms = Cardinality(bookmarks[c]),
                        !.fault = kind, !.faultId = f]
        /\ solo' = NoSolo
        /\ UNCHANGED <<db, nextChat, nextMsg, nextBm, renames, turns>>

\* The documents of running ids below n.
Ids(n) == 1..(n - 1)

NextFault ==
    \/ Next
    \/ \E c \in ChatArgs, done \in SUBSET Ids(nextBm), f \in Ids(nextBm) :
            delete_chat_endpoint_failing(c, "bookmark", done, f)
    \/ \E c \in ChatArgs, done \in SUBSET Ids(nextMsg), f \in Ids(nextMsg) :
            delete_chat_endpoint_failing(c, "message", done, f)

SpecFault == Init /\ [][NextFault]_vars

\* ------------------------------------------------- concurrent requests
\* The server handles requests in parallel, and no handler holds a lock or
\* runs in a transaction: between two store calls of one request the store
\* calls of another can run. A step below is one store call of a handler,
\* or its last calls with its response.

Begun ==
    /\ requests < MaxRequests
    /\ requests' = requests + 1

Quiet ==
    /\ UNCHANGED <<db, nextBm, renames, turns, solo, chat_history>>
    /\ UNCHANGED uploadVars

SetTurn(w, t) == inflight' = [inflight EXCEPT !.turn[w] = t]

\* POST /chat up to the answer of the generation: the checks, create_chat
\* when the request has no chatId, get_ai_response.
chat_begin(w, text, chatId, aiOk) ==
    LET new == IF chatId = None
               THEN create_chat(Store, nextChat, DefaultChatName)
               ELSE [id |-> chatId, s |-> Store]
        made == chatId = None /\ new.id # None
    IN  /\ inflight.turn[w].pc = "idle"
        /\ Begun
        /\ Quiet
        /\ UNCHANGED nextMsg
        /\ IF text = NoText
           THEN /\ last' = [Resp("chat", 400) EXCEPT !.invalid = TRUE]
                /\ UNCHANGED <<chats, messages, bookmarks, nextChat, inflight>>
           ELSE IF new.id = None
           THEN /\ last' = Resp("chat", 500)
                /\ UNCHANGED <<chats, messages, bookmarks, nextChat, inflight>>
           ELSE /\ SetStore(new.s)
                /\ nextChat' = IF made THEN nextChat + 1 ELSE nextChat
                /\ IF aiOk
                   THEN /\ SetTurn(w, [NoTurn EXCEPT !.pc = "answered",
                                           !.chat = new.id, !.text = text,
                                           !.created = made])
                        /\ UNCHANGED last
                   ELSE /\ last' = [Resp("chat", 500) EXCEPT !.chat = new.id]
                        /\ UNCHANGED inflight

\* save_chat_message of the user message.
chat_save_user(w) ==
    LET t == inflight.turn[w]
        u == save_chat_message(Store, t.chat, nextMsg, "user", t.text)
    IN  /\ t.pc = "answered"
        /\ SetStore(u.s)
        /\ nextMsg' = IF u.id = None THEN nextMsg ELSE nextMsg + 1
        /\ SetTurn(w, [t EXCEPT !.pc = "user", !.user_message_id = u.id])
        /\ Quiet
        /\ UNCHANGED <<nextChat, requests, last>>

\* save_chat_message of the tutor message.
chat_save_tutor(w) ==
    LET t == inflight.turn[w]
        u == save_chat_message(Store, t.chat, nextMsg, "tutor", Reply)
    IN  /\ t.pc = "user"
        /\ SetStore(u.s)
        /\ nextMsg' = IF u.id = None THEN nextMsg ELSE nextMsg + 1
        /\ SetTurn(w, [t EXCEPT !.pc = "tutor", !.tutor_message_id = u.id])
        /\ Quiet
        /\ UNCHANGED <<nextChat, requests, last>>

\* The rest of POST /chat: update_chat_timestamp, the rename of a chat
\* with two messages, the response.
chat_finish(w) ==
    LET t == inflight.turn[w]
        ts == update_chat_timestamp(Store, t.chat)
        chat_messages == get_chat_history_by_chat(ts.s, t.chat)
        rn == IF Len(chat_messages) = 2
              THEN update_chat_name(ts.s, t.chat, AutoChatName(t.text))
              ELSE [ok |-> FALSE, s |-> ts.s]
    IN  /\ t.pc = "tutor"
        /\ SetStore(rn.s)
        /\ SetTurn(w, NoTurn)
        /\ last' = [Resp("chat", 200) EXCEPT
                        !.chat = t.chat, !.renamed = rn.ok,
                        !.nmsgs = Len(messages[t.chat])]
        /\ renames' = IF rn.ok
                      THEN [renames EXCEPT ![t.chat] = Min(@ + 1, 2)]
                      ELSE renames
        /\ turns' = Bump(turns, t.chat)
        /\ solo' = IF t.created THEN [solo EXCEPT ![t.chat] = TRUE] ELSE solo
        /\ chat_history' = Append(chat_history, Turn(Owner, t.text, Reply))
        /\ UNCHANGED <<db, nextChat, nextMsg, nextBm, requests>>
        /\ UNCHANGED uploadVars

SetDelete(d) == inflight' = [inflight EXCEPT !.delete = d]

\* DELETE /chats/{id} up to the existence check of delete_chat.
delete_begin(c) ==
    /\ inflight.delete.pc \in {"idle", "done"}
    /\ Begun
    /\ Quiet
    /\ UNCHANGED <<chats, messages, bookmarks, nextChat, nextMsg>>
    /\ IF db /\ c \in DOMAIN chats
       THEN /\ SetDelete([NoDelete EXCEPT !.pc = "checked", !.chat = c])
            /\ UNCHANGED last
       ELSE /\ last' = [Resp("delete_chat", 500) EXCEPT !.chat = c]
            /\ UNCHANGED inflight

\* The loop over the bookmarks of the chat.
delete_sweep_bookmarks ==
    LET d == inflight.delete
    IN  /\ d.pc = "checked"
        /\ bookmarks' = [bookmarks EXCEPT ![d.chat] = {}]
        /\ SetDelete([d EXCEPT !.pc = "bookmarks"])
        /\ Quiet
        /\ UNCHANGED <<chats, messages, nextChat, nextMsg, requests, last>>

\* A loop that finds no message to delete.
delete_sweep_messages_Nothing ==
    LET d == inflight.delete
    IN  /\ d.pc = "bookmarks"
        /\ SetDelete([d EXCEPT !.pc = "messages", !.sweptAt = nextMsg])
        /\ Quiet
        /\ UNCHANGED <<chats, messages, bookmarks, nextChat, nextMsg,
                       requests, last>>

\* The loop over the messages of the chat.
delete_sweep_messages ==
    LET d == inflight.delete
    IN  /\ d.pc = "bookmarks"
        /\ messages' = [messages EXCEPT ![d.chat] = << >>]
        /\ SetDelete([d EXCEPT !.pc = "messages", !.sweptAt = nextMsg])
        /\ Quiet
        /\ UNCHANGED <<chats, bookmarks, nextChat, nextMsg, requests, last>>

\* chat_ref.delete(), the check that the document is gone, the response.
delete_document ==
    LET d == inflight.delete
    IN  /\ d.pc = "messages"
        /\ chats' = [x \in DOMAIN chats \ {d.chat} |-> chats[x]]
        /\ SetDelete([d EXCEPT
                !.pc = "done",
                !.racing = { w \in Workers :
                                /\ inflight.turn[w].pc # "idle"
                                /\ inflight.turn[w].chat = d.chat }])
        /\ last' = [Resp("delete_chat", 200) EXCEPT !.chat = d.chat]
        /\ Quiet
        /\ UNCHANGED <<messages, bookmarks, nextChat, nextMsg, requests>>

NextConc ==
    \/ \E w \in Workers, text \in {NoText, <<"what">>}, chatId \in ChatArgs,
          aiOk \in BOOLEAN :
            chat_begin(w, text, chatId, aiOk)
    \/ \E w \in Workers : chat_save_user(w)
    \/ \E w \in Workers : chat_save_tutor(w)
    \/ \E w \in Workers : chat_finish(w)
    \/ \E c \in ChatArgs \ {None} : delete_begin(c)
    \/ delete_sweep_bookmarks
    \/ delete_sweep_messages
    \/ delete_document
    \/ \E linked \in MsgArgs, chatId \in ChatArgs \ {None} :
            create_bookmark(linked, TRUE, chatId)

SpecConc == Init /\ [][NextConc]_vars

\* ------------------------------------------- delete_chat, write by write
\* delete_chat one document at a time, as a reader of the store or a crash
\* of the worker finds it: the other requests are handled while no
\* delete is under way. todo are the documents of the stream the loop has
\* not deleted yet, deleted the messages this delete_chat has deleted, and
\* linked the messages the bookmarks of the chat linked when it began.

\* An order that deletes the messages before the bookmarks.
delete_chat_order_MessagesFirst == <<"messages", "bookmarks", "document">>

\* The order of the writes of delete_chat.
delete_chat_order == <<"bookmarks", "messages", "document">>

NoDeleteRunning == inflight.delete.pc # "running"

\* stream() of the subcollection of the phase.
Stream(c, phase) ==
    IF phase = "bookmarks" THEN { b.id : b \in bookmarks[c] }
    ELSE IF phase = "messages" THEN MsgIdsOf(Store, c)
    ELSE {}

\* DELETE /chats/{id} up to the existence check.
cascade_begin(c) ==
    /\ NoDeleteRunning
    /\ Begun
    /\ Quiet
    /\ UNCHANGED <<chats, messages, bookmarks, nextChat, nextMsg>>
    /\ IF db /\ c \in DOMAIN chats
       THEN /\ SetDelete([NoDelete EXCEPT
                    !.pc = "running", !.chat = c,
                    !.linked = { b.linkedMessageId : b \in bookmarks[c] }])
            /\ UNCHANGED last
       ELSE /\ last' = [Resp("delete_chat", 500) EXCEPT !.chat = c]
            /\ UNCHANGED inflight

\* The loop of a phase is over: the stream of the next phase, or
\* chat_ref.delete(), the check that the document is gone and the response.
cascade_enter ==
    LET d == inflight.delete
        next == delete_chat_order[d.phase + 1]
    IN  /\ d.pc = "running" /\ d.todo = {}
        /\ d.phase < Len(delete_chat_order)
        /\ Quiet
        /\ UNCHANGED <<messages, bookmarks, nextChat, nextMsg, requests>>
        /\ IF next = "document"
           THEN /\ chats' = [x \in DOMAIN chats \ {d.chat} |-> chats[x]]
                /\ SetDelete([d EXCEPT !.pc = "done", !.phase = @ + 1])
                /\ last' = [Resp("delete_chat", 200) EXCEPT !.chat = d.chat]
           ELSE /\ SetDelete([d EXCEPT !.phase = @ + 1,
                                       !.todo = Stream(d.chat, next)])
                /\ UNCHANGED <<chats, last>>

\* reference.delete() of one document of the stream.
cascade_delete(id) ==
    LET d == inflight.delete
        phase == delete_chat_order[d.phase]
    IN  /\ d.pc = "running" /\ id \in d.todo
        /\ IF phase = "bookmarks"
           THEN /\ bookmarks' = [bookmarks EXCEPT ![d.chat] =
                                    { b \in @ : b.id # id }]
                /\ SetDelete([d EXCEPT !.todo = @ \ {id}])
                /\ UNCHANGED messages
           ELSE /\ messages' = [messages EXCEPT ![d.chat] =
                                    SelectSeq(@, LAMBDA m : m.id # id)]
                /\ SetDelete([d EXCEPT !.todo = @ \ {id},
                                       !.deleted = @ \cup {id}])
                /\ UNCHANGED bookmarks
        /\ Quiet
        /\ UNCHANGED <<chats, nextChat, nextMsg, requests, last>>

\* The worker dies between two writes: no response, the store as it is.
cascade_crash ==
    LET d == inflight.delete
    IN  /\ d.pc = "running"
        /\ SetDelete([d EXCEPT !.pc = "crashed"])
        /\ Quiet
        /\ UNCHANGED <<chats, messages, bookmarks, nextChat, nextMsg,
                       requests, last>>

NextCascade ==
    \/ /\ NoDeleteRunning
       /\ \E chatId \in ChatArgs, aiOk \in BOOLEAN :
            chat(<<"what">>, chatId, aiOk)
    \/ /\ NoDeleteRunning
       /\ \E linked \in MsgArgs, chatId \in ChatArgs :
            create_bookmark(linked, TRUE, chatId)
    \/ \E c \in ChatArgs \ {None} : cascade_begin(c)
    \/ cascade_enter
    \/ \E id \in inflight.delete.todo : cascade_delete(id)
    \/ cascade_crash

SpecCascade == Init /\ [][NextCascade]_vars

\* ------------------------------------------------------------- the prompt
\* The user whose chats, messages and bookmarks the store variables hold.

\* A message of POST /chat as typed: words, " " for a run of white space.
Messages ==
    { <<" ">>,
      <<" ", "what", " ">>,
      <<"ch1", " ", "what">>,
      <<"what", " ", "context">>,
      <<"chapter", " ", "ch1">>,
      <<"see", " ", "PDF">> }

\* The attachedFiles of a request, by the name of each entry.
Attachments ==
    { << >>, <<[name |-> <<"a", ".", "pdf">>]>>,
      <<[name |-> <<"b", ".", "pdf">>]>> }

\* The uploads that come before a chat in these runs.
PromptFiles ==
    { File(<<"a", ".", "pdf">>, "application/pdf", 5, "%PDF1"),
      File(<<"my", " ", "a", ".", "tar", ".", "png">>, "image/png", 5, "PNG01") }

PromptExtractions ==
    { [direct |-> Found(21), ocr |-> Found(0), adv |-> Found(9)],
      [direct |-> Found(0), ocr |-> Found(0), adv |-> Found(0)] }

file_reference_keywords ==
    {"pdf", "document", "file", "uploaded", "attached", "content", "text",
     "syllabus"}
chapter_reference_keywords == {"chapter", "section", "topic"}

\* The keywords that occur in a word as a piece of it, after lower().
KeywordsIn(word) ==
    CASE Lower(word) = "pdf" -> {"pdf"}
      [] word = "context" -> {"text"}
      [] word = "chapter" -> {"chapter"}
      [] OTHER -> {}

\* any(keyword in user_message_lower for keyword in keywords)
HasReferences(user_message, keywords) ==
    \E i \in 1..Len(user_message) : KeywordsIn(user_message[i]) \cap keywords # {}

\* name.lower() in user_message_lower
Within(name, user_message) ==
    LET lower == [i \in 1..Len(user_message) |-> Lower(user_message[i])]
        nm == [i \in 1..Len(name) |-> Lower(name[i])]
    IN  \E i \in 1..(Len(lower) - Len(nm) + 1) :
            SubSeq(lower, i, i + Len(nm) - 1) = nm

\* content[:n]
Cut(t, n) == IF t.len > n THEN Text(n, n) ELSE t

\* One delimited block of the prompt.
Block(kind, name, content) ==
    [kind |-> kind, name |-> name, content |-> content]

\* user_message.strip().split()
Words(message) == SelectSeq(message, LAMBDA t : t # " ")

\* flask.g belongs to one request: in POST /chat no attribute
\* latest_pdf_content is set on it.
RequestG == [latest_pdf_content |-> Text(0, 0)]

\* The file_context string of chat().
file_context(attached_files, ctx) ==
    IF attached_files = << >> THEN << >>
    ELSE <<Block("ATTACHED FILES CONTENT", << >>, Text(0, 0))>>
         \o [i \in 1..Len(SelectSeq(attached_files,
                    LAMBDA f : \E e \in ctx : e.key = f.name)) |->
                LET f == SelectSeq(attached_files,
                            LAMBDA h : \E e \in ctx : e.key = h.name)[i]
                IN  Block("FILE", f.name,
                          (CHOOSE e \in ctx : e.key = f.name).text)]
         \o <<Block("END OF ATTACHED FILES", << >>, Text(0, 0))>>

\* A context assembly that inlines every chapter the message names, with
\* or without a chapter keyword.
global_context_AnyChapter(user_message, attached_files, ctx, g) ==
    { Block("CHAPTER", e.key, Cut(e.text, 4000)) :
        e \in { e \in ctx : Within(e.key, user_message) } }

\* The global_context string of chat(): the blocks it is made of (the
\* chapter blocks come in the order of the session's keys).
global_context(user_message, attached_files, ctx, g) ==
    LET has_file_references ==
            HasReferences(user_message, file_reference_keywords)
        has_chapter_references ==
            HasReferences(user_message, chapter_reference_keywords)
    IN  (IF (attached_files # << >> \/ has_file_references)
            /\ g.latest_pdf_content.len > 0
         THEN {Block("PDF CONTEXT", << >>, Cut(g.latest_pdf_content, 4000))}
         ELSE {})
        \cup
        (IF has_chapter_references
         THEN { Block("CHAPTER", e.key, Cut(e.text, 4000)) :
                    e \in { e \in ctx : Within(e.key, user_message) } }
         ELSE {})

full_user_prompt(user_message, attached_files, ctx, g) ==
    Prompt(user_message, file_context(attached_files, ctx),
           global_context(user_message, attached_files, ctx, g))

\* POST /chat of the owner with its session: the prompt assembled from the
\* message, the attached files and the session, and the store writes of
\* chat().
chat_prompt(message, attached_files, chatId, aiOk) ==
    LET user_message == Trim(message, {" "})
        r == chatResult(Words(user_message), chatId, aiOk)
        asked == user_message # << >> /\ (r.chat # None)
    IN  /\ requests < MaxFileRequests
        /\ requests' = requests + 1
        /\ SetStore(r.s)
        /\ nextChat' = IF r.created THEN nextChat + 1 ELSE nextChat
        /\ nextMsg' = nextMsg + r.saved
        /\ last' = [Resp("chat", r.code) EXCEPT
                        !.chat = r.chat, !.renamed = r.renamed,
                        !.invalid = (user_message = << >>),
                        !.user = Owner,
                        !.message = message,
                        !.attached = attached_files,
                        !.asked = asked,
                        !.prompt = IF asked
                                   THEN full_user_prompt(user_message,
                                            attached_files, session[Owner],
                                            RequestG)
                                   ELSE NoPrompt]
        /\ renames' = IF r.renamed
                      THEN [renames EXCEPT ![r.chat] = Min(@ + 1, 2)]
                      ELSE renames
        /\ turns' = IF r.code = 200 THEN Bump(turns, r.chat) ELSE turns
        /\ solo' = IF r.code = 200 /\ r.created
                   THEN [solo EXCEPT ![r.chat] = TRUE] ELSE solo
        /\ chat_history' =
                IF r.code = 200
                THEN Append(chat_history,
                            Turn(Owner, Words(user_message), Reply))
                ELSE chat_history
        /\ UNCHANGED <<db, nextBm, inflight>>
        /\ UNCHANGED uploadVars

NextPrompt ==
    \/ \E u \in Users, file \in PromptFiles, chapter \in Chapters,
          x \in PromptExtractions :
            upload_file(u, file, chapter, x)
    \/ \E message \in Messages, attached_files \in Attachments,
          chatId \in ChatArgs, aiOk \in BOOLEAN :
            chat_prompt(message, attached_files, chatId, aiOk)

SpecPrompt == Init /\ [][NextPrompt]_vars

\* ------------------------------------------------------ the history log
\* GET /history and POST /history/clear next to POST /chat, for requests of
\* both users. chat_history is one list of the process; the store of the
\* model is the store of Owner (the documents of another user lie under
\* another path), so with a client the requests are Owner's, and without
\* one, when no store function reads or writes, they are any user's.

\* users/{uid}/chat_history, the collection get_chat_history reads. No
\* function of the code writes a document under it.
chat_history_collection == << >>

\* limit as the query parameter: 0 when the request has none.
Limits == {0, 1}

LastN(seq, n) ==
    IF n > 0 /\ n < Len(seq) THEN SubSeq(seq, Len(seq) - n + 1, Len(seq))
    ELSE seq

\* get_chat_history: the documents of the collection, the newest limit of
\* them, oldest first.
get_chat_history(limit) ==
    IF db THEN LastN(chat_history_collection, limit) ELSE << >>

\* The loop of the endpoint over the documents: a user message opens an
\* entry, a tutor message fills the reply of the entry before it.
RECURSIVE Entries(_, _)
Entries(u, docs) ==
    IF docs = << >> THEN << >>
    ELSE LET h == Entries(u, SubSeq(docs, 1, Len(docs) - 1))
             m == docs[Len(docs)]
         IN  IF m.sender = "user" THEN Append(h, Turn(u, m.message, << >>))
             ELSE IF m.sender = "tutor" /\ h # << >>
             THEN [h EXCEPT ![Len(h)].ai_reply = m.message]
             ELSE h

\* GET /history without chapter and date filters.
get_chat_history_endpoint(u, limit) ==
    LET filtered_history == IF db THEN Entries(u, get_chat_history(limit))
                            ELSE chat_history
    IN  /\ Handled
        /\ last' = [Resp("history", 200) EXCEPT
                        !.user = u,
                        !.history = LastN(filtered_history, limit)]
        /\ solo' = NoSolo
        /\ UNCHANGED <<db, chats, messages, bookmarks, nextChat, nextMsg,
                       nextBm, renames, turns>>

Acting(u) == db => u = Owner

NextLog ==
    \/ \E u \in Users, text \in Texts \cup {NoText}, chatId \in ChatArgs,
          aiOk \in BOOLEAN :
            Acting(u) /\ chat_by(u, text, chatId, aiOk)
    \/ \E u \in Users, limit \in Limits :
            Acting(u) /\ get_chat_history_endpoint(u, limit)
    \/ \E u \in Users : Acting(u) /\ clear_history_by(u)

SpecLog == Init /\ [][NextLog]_vars

\* ---------------------------------------------------------------- claims

\* C1: immediately after deleteChat answers success, the chat document is
\* absent and no message and no bookmark stored under that chat id can be
\* retrieved.
C1_DeleteChatCascades ==
    (last.op = "delete_chat" /\ last.code = 200) =>
        /\ last.chat \notin DOMAIN chats
        /\ Len(get_chat_history_by_chat(Store, last.chat)) = 0
        /\ get_chat_bookmarks(Store, last.chat) = {}
        /\ \A b \in AllBookmarks : b.chatId # last.chat

C1_Witness ==
    /\ last.op = "delete_chat" /\ last.code = 200
    /\ last.nmsgs > 0 /\ last.nbms > 0

\* C2: after POST /bookmarks created a bookmark the linked message's
\* bookmarked flag is true, and after DELETE /bookmarks/{id} deleted it the
\* flag is false.
C2_FlagFollowsBookmark ==
    /\ (last.op = "create_bookmark" /\ last.bm # None) =>
            \A m \in AllMessages : m.id = last.msg => m.bookmarked
    /\ (last.op = "delete_bookmark" /\ last.code = 200 /\ last.msg # None) =>
            \A m \in AllMessages : m.id = last.msg => ~m.bookmarked

\* C3: auto-rename by POST /chat fires exactly once for a chat, in the turn
\* that brings its message count to 2, and never again, whatever other
\* requests (clear-chat, clear-history, edit-regenerate, rename) come
\* between.
C3_AutoRenameOnce ==
    /\ \A c \in ChatIds : renames[c] <= 1
    /\ (last.op = "chat" /\ last.renamed) =>
            Len(messages[last.chat]) = 2

\* C4: every edit-regenerate call on a user message that is directly
\* followed by a tutor message leaves the chat's message count as it was
\* (one tutor message deleted, one stored).
C4_EditRegenerateKeepsCount ==
    (last.op = "edit_regenerate" /\ last.followed) =>
        Len(messages[last.chat]) = last.nmsgs

\* C5: in every reachable state a message's bookmarked flag is true if and
\* only if a bookmark linked to that message exists.
C5_FlagIffBookmark ==
    \A m \in AllMessages : m.bookmarked <=> BookmarksOf(m.id) # {}

\* C6: with no two bookmark calls running at once, at most one bookmark
\* per message exists in every reachable state.
C6_AtMostOneBookmarkPerMessage ==
    \A m \in AllMessages : Cardinality(BookmarksOf(m.id)) <= 1

\* C7: toggleMessageBookmark with bookmarked=true and a snippet on an
\* existing message creates a bookmark linked to the message; with
\* bookmarked=false it deletes the bookmark linked to the message.
C7_ToggleCreatesAndDeletes ==
    /\ (db /\ last.op = "toggle_on" /\ last.code = 200) =>
            BookmarksOf(last.msg) # {}
    /\ (db /\ last.op = "toggle_off" /\ last.code = 200 /\ last.nbms > 0) =>
            /\ last.bm # None
            /\ \A b \in AllBookmarks : b.id # last.bm
            /\ Cardinality(BookmarksOf(last.msg)) = last.nbms - 1

\* C8: a chat opened by POST /chat without chatId and written by nothing
\* but POST /chat holds, after k calls answered 200, exactly 2k messages,
\* a user message and a tutor message per call.
C8_TwoMessagesPerTurn ==
    \A c \in ChatIds :
        solo[c] =>
            /\ Len(messages[c]) = 2 * turns[c]
            /\ \A i \in 1..Len(messages[c]) :
                   messages[c][i].sender =
                       IF i % 2 = 1 THEN "user" ELSE "tutor"

C8_Witness ==
    \E c \in ChatIds : solo[c] /\ turns[c] = 2 /\ Len(messages[c]) = 4

C11_BookmarkNeedsChat ==
    [][(last'.op = "create_bookmark" /\ last'.chat \notin DOMAIN chats) =>
            /\ last'.bm = None
            /\ last'.code # 200 \/ ~db
            /\ UNCHANGED <<chats, messages, bookmarks>>]_vars

C11_Witness ==
    /\ db /\ last.op = "create_bookmark" /\ last.code = 500
    /\ last.chat # None /\ last.chat \notin DOMAIN chats
    /\ \E m \in AllMessages : m.id = last.msg /\ ~m.bookmarked

\* C12: after POST /history/clear no bookmark and no message is left under
\* any chat of the user, and after POST /history/clear-chat/{id} none is
\* left under that chat.
C12_ClearDeletesBookmarks ==
    /\ (db /\ last.op = "clear_history") =>
            /\ AllBookmarks = {}
            /\ \A c \in DOMAIN chats :
                    Len(messages[c]) = 0 /\ bookmarks[c] = {}
    /\ (db /\ last.op = "clear_chat") =>
            Len(messages[last.chat]) = 0 /\ bookmarks[last.chat] = {}

C12_Witness ==
    /\ db /\ last.op \in {"clear_history", "clear_chat"}
    /\ last.nmsgs > 0 /\ last.nbms > 0
    /\ AllBookmarks = {}

\* C17: deleted is terminal: a chat id the store handed out whose chat
\* document is absent (it was deleted) has no chat document after any later
\* request, and neither has an id the store never handed out.
C17_DeletedIsTerminal ==
    [][\A c \in ChatIds :
            (c < nextChat /\ c \notin DOMAIN chats) => c \notin DOMAIN chats']_vars

C17_Witness ==
    /\ db /\ last.op = "chat" /\ last.code = 200
    /\ last.chat >= 1 /\ last.chat < nextChat
    /\ last.chat \notin DOMAIN chats
    /\ Len(messages[last.chat]) = 2


\* C13: every request rejected as invalid input (an empty chat message, a
\* missing bookmark field, a blank rename name, a missing, unsupported or
\* oversized upload file, a file name without an extension) is answered with
\* 400 or 413 and leaves the document store, the session cache and the blob
\* directory unchanged.
C13_InvalidInputRejected ==
    [][last'.invalid =>
            /\ last'.code \in {400, 413}
            /\ UNCHANGED <<chats, messages, bookmarks, uploads, disk,
                           session>>]_vars

\* C18: an upload of a PDF in which none of the three extraction methods
\* finds ten characters is still stored, and its stored extractedText is the
\* failure placeholder built from the stored file name.
C18_NoTextStoresPlaceholder ==
    (db /\ last.op = "upload_file" /\ last.textless) =>
        /\ last.code = 200
        /\ \E d \in uploads[last.user] :
                /\ d.id = last.upload
                /\ d.fileName = last.name
                /\ d.extractedText = Placeholder(d.fileName)
                /\ d.extractedText.filename = last.name

C18_Witness ==
    /\ db /\ last.op = "upload_file" /\ last.code = 200 /\ last.textless
    /\ \E d \in uploads[last.user] :
            /\ d.id = last.upload
            /\ d.extractedText.placeholder
            /\ d.extractedText.filename = <<"a", ".", "pdf">>
            /\ d.contentLength = 123 + 5

\* C20: GET /files/{id} answers 404 and serves no bytes whenever the
\* requesting user has no metadata document with that id, or the file
\* {id}{extension of the stored name} is not on disk.
C20_ServeNeedsMetadataAndBlob ==
    last.op = "serve_file_by_id" =>
        LET found == { r \in uploads[last.user] : r.id = last.upload }
        IN  ( \/ ~db
              \/ found = {}
              \/ \E r \in found :
                    \A f \in disk :
                        f.name # DiskName(last.upload, splitext(r.fileName)) )
            => last.code = 404 /\ last.content = "" /\ last.name = << >>

C20_Witness ==
    /\ db /\ last.op = "serve_file_by_id" /\ last.code = 404
    /\ \E r \in uploads[last.user] : r.id = last.upload
    /\ disk = {}

\* C19: for POST /chat with no attached files and a message in which no
\* file or chapter keyword occurs, the user turn sent to generation is the
\* message alone (after strip()): no attached-file, PDF CONTEXT or CHAPTER
\* block, whatever the session holds.
C19_NoTriggerNoContext ==
    ( /\ last.op = "chat" /\ last.asked
      /\ last.attached = << >>
      /\ \A i \in 1..Len(last.message) :
            KeywordsIn(last.message[i]) = {} )
    => /\ last.prompt = Prompt(Trim(last.message, {" "}), << >>, {})
       /\ last.prompt.file_context = << >>
       /\ last.prompt.global_context = {}

C19_Witness ==
    /\ last.op = "chat" /\ last.asked /\ last.code = 200
    /\ last.attached = << >>
    /\ last.message = <<"ch1", " ", "what">>
    /\ \E e \in session[Owner] : e.key = <<"ch1">> /\ e.text.len > 0
    /\ last.prompt = Prompt(<<"ch1", " ", "what">>, << >>, {})

\* C14: when a sub-deletion fails during the cascade delete of a chat, the
\* cascade continues: every other bookmark and message of the chat is
\* deleted all the same.
C14_CascadeContinues ==
    (last.op = "delete_chat" /\ last.fault # "none") =>
        /\ \A b \in bookmarks[last.chat] :
                last.fault = "bookmark" /\ b.id = last.faultId
        /\ \A i \in 1..Len(messages[last.chat]) :
                last.fault = "message" /\ messages[last.chat][i].id = last.faultId

\* The place of the message with the id in a sequence of messages.
PosOf(seq, id) == CHOOSE i \in 1..Len(seq) : seq[i].id = id

\* C15: for any interleaving of two POST /chat requests on one chat, in
\* timestamp order each tutor message directly follows the user message of
\* its own turn.
C15_TutorFollowsOwnUser ==
    \A w \in Workers :
        LET t == inflight.turn[w]
        IN  ( /\ t.pc = "tutor"
              /\ {t.user_message_id, t.tutor_message_id}
                    \subseteq MsgIdsOf(Store, t.chat) )
            => PosOf(messages[t.chat], t.tutor_message_id)
                    = PosOf(messages[t.chat], t.user_message_id) + 1

\* C16: a DELETE /chats/{id} racing with a POST /chat on the chat can end
\* with the chat document absent and a message stored under the chat id;
\* every message left under a deleted chat was saved after the delete swept
\* the messages.
C16_OrphansPostdateSweep ==
    LET d == inflight.delete
    IN  d.pc = "done" =>
            /\ d.chat \notin DOMAIN chats
            /\ \A i \in 1..Len(messages[d.chat]) :
                    messages[d.chat][i].id >= d.sweptAt

C16_Witness ==
    LET d == inflight.delete
    IN  /\ d.pc = "done" /\ requests = 2
        /\ d.chat \notin DOMAIN chats
        /\ \E w \in d.racing :
                /\ inflight.turn[w].chat = d.chat
                /\ inflight.turn[w].user_message_id
                        \in MsgIdsOf(Store, d.chat)

\* C26: a POST /chat or POST /chat/edit-regenerate whose generation call
\* fails answers an error and leaves the document store as it was: no chat
\* created, no message added, edited or deleted.
C26_FailedGenerationWritesNothing ==
    [][last'.aiFailed =>
            /\ last'.code >= 400
            /\ UNCHANGED <<chats, messages, bookmarks>>]_vars

\* C27: POST /chat with a chatId that names no existing chat (never
\* created, or deleted) stores no message under that chatId.
C27_NoMessageWithoutChat ==
    [][\A c \in ChatIds :
            ( /\ last'.op = "chat" /\ last'.chat = c
              /\ c < nextChat /\ c \notin DOMAIN chats )
            => messages'[c] = messages[c]]_vars

\* C22: the extractedText stored in the metadata document of an upload is
\* never longer than 1000 characters, whatever the length of the extracted
\* text.
C22_StoredTextAtMost1000 ==
    \A u \in Users : \A d \in uploads[u] : d.extractedText.len <= 1000

\* C25: an image upload whose OCR raises or finds fewer than ten characters
\* does not fail: it is answered 200 and stored with the extraction-failure
\* placeholder as its text.
C25_TextlessImageStored ==
    (db /\ last.op = "upload_file" /\ last.textlessImage) =>
        /\ last.code = 200
        /\ \E d \in uploads[last.user] :
                d.id = last.upload /\ d.extractedText.placeholder

\* C28: every bookmark's linkedMessageId is the id of a message that exists
\* in the bookmark's own chat.
C28_BookmarkLinksExistingMessage ==
    \A c \in ChatIds : \A b \in bookmarks[c] :
        b.linkedMessageId \in MsgIdsOf(Store, c)

\* C24: in every chat, in timestamp order, each tutor message directly
\* follows the user message that triggered it, also after an
\* edit-regenerate of a user message that is not the last turn: the tutor
\* message an edit-regenerate stored is the one right after the edited
\* user message.
C24_RegeneratedFollowsEdited ==
    ( /\ last.op = "edit_regenerate" /\ last.code = 200
      /\ {last.msg, nextMsg - 1} \subseteq MsgIdsOf(Store, last.chat) )
    => PosOf(messages[last.chat], nextMsg - 1)
            = PosOf(messages[last.chat], last.msg) + 1

\* C23: delete_chat writes in the order bookmarks, messages, chat document:
\* in every intermediate state of a delete_chat no bookmark of the chat
\* links a message this delete_chat has deleted, the chat document is there
\* as long as the delete is under way, and when it goes no bookmark and no
\* message of the stream is left.
C23_BookmarksBeforeMessages ==
    LET d == inflight.delete
    IN  /\ d.pc = "running" =>
            /\ d.chat \in DOMAIN chats
            /\ \A b \in bookmarks[d.chat] : b.linkedMessageId \notin d.deleted
        /\ (d.pc = "done" /\ last.op = "delete_chat" /\ last.code = 200) =>
            /\ d.chat \notin DOMAIN chats
            /\ bookmarks[d.chat] = {} /\ messages[d.chat] = << >>

C23_Witness ==
    LET d == inflight.delete
    IN  /\ d.pc = "running" /\ d.phase >= 1
        /\ delete_chat_order[d.phase] = "messages"
        /\ d.deleted \cap d.linked # {}
        /\ d.todo # {}

\* What every store function answers for the store as it is, whatever the
\* arguments of the call.
Sentinels ==
    /\ get_user_chats(Store) = {}
    /\ get_bookmarks(Store) = {}
    /\ create_chat(Store, nextChat, DefaultChatName) = [id |-> None, s |-> Store]
    /\ delete_all_bookmarks(Store) = [ok |-> FALSE, s |-> Store]
    /\ delete_all_chat_messages(Store) = [ok |-> FALSE, s |-> Store]
    /\ \A c \in ChatIds :
        /\ get_chat_history_by_chat(Store, c) = << >>
        /\ get_chat_bookmarks(Store, c) = {}
        /\ delete_chat_bookmarks(Store, c) = [ok |-> FALSE, s |-> Store]
        /\ delete_chat_messages(Store, c) = [ok |-> FALSE, s |-> Store]
        /\ update_chat_name(Store, c, ManualName) = [ok |-> FALSE, s |-> Store]
        /\ update_chat_timestamp(Store, c) = [ok |-> FALSE, s |-> Store]
        /\ delete_chat(Store, c) = [ok |-> FALSE, s |-> Store]
        /\ \A id \in 1..nextMsg :
            /\ \A text \in Texts :
                /\ save_chat_message(Store, c, id, "user", text)
                        = [id |-> None, s |-> Store]
                /\ update_chat_message(Store, c, id, text)
                        = [ok |-> FALSE, s |-> Store]
            /\ delete_followup_assistant_message(Store, c, id)
                    = [ok |-> FALSE, s |-> Store]
            /\ save_bookmark(Store, nextBm, id, c) = [id |-> None, s |-> Store]
    /\ \A id \in 1..nextMsg, b \in BOOLEAN :
            update_message_bookmark(Store, id, b) = [ok |-> FALSE, s |-> Store]
    /\ \A id \in 1..nextBm :
            delete_bookmark(Store, id) = [ok |-> FALSE, s |-> Store]

TurnsOf(u, log) == SelectSeq(log, LAMBDA e : e.by = u)

\* C29: with the store available, a GET /history of the user after a
\* POST /chat answered 200 returns the turn that the POST /chat stored.
C29_HistoryReadsChatMessages ==
    [][(/\ db /\ last.op = "chat" /\ last.code = 200
        /\ last'.op = "history" /\ last'.user = last.user)
       => \E i \in 1..Len(last'.history) :
            last'.history[i].user_message = last.message]_vars

\* C30: without the store, GET /history of a user returns no turn that
\* another user submitted, and POST /history/clear of a user removes no
\* turn of another user.
C30_LogIsolatedByUser ==
    [][~db =>
        /\ last'.op = "history" =>
                \A i \in 1..Len(last'.history) :
                    last'.history[i].by = last'.user
        /\ last'.op = "clear_history" =>
                \A v \in Users \ {last'.user} :
                    TurnsOf(v, chat_history') = TurnsOf(v, chat_history)]_vars

====
